---- MODULE Spec2Model ----
(***************************************************************************)
(* Model of the MiniMax text-to-speech job workflow of the repository:     *)
(*   src/audio/ai_minimax_tts_cli.py  (create_minimax_tts,                 *)
(*       poll_minimax_task, download_file, main)          -- impl = "cli"  *)
(*   src/audio/minimax_poll.py        (module-level script) impl = "script"*)
(* Both create an asynchronous job, poll its status and download the       *)
(* resulting file.  The other programs modelled are                        *)
(*   src/audio/use_cloned_voice.py    (main, generate_tts)  impl = "voice" *)
(*   src/Langfuse/run_local_experiment.py (main)       impl = "experiment" *)
(*   src/audiototext/process_cantonese_transcribe_and_correct.py           *)
(*       (log_to_langfuse)                                impl = "correct" *)
(*   src/audiototext/send_transcripts_langfuse.py                          *)
(*       (log_to_langfuse, main)                             impl = "send" *)
(*   src/audiototext/qwen_audio_processor.py                               *)
(*       (transcribe_segment)                          impl = "transcribe" *)
(*   src/audiototext/process_cantonese_transcribe_and_correct.py           *)
(*       (main: index slice, transcribe-and-correct loop)   impl = "batch" *)
(*   src/audiototext/qwen_audio_processor.py                               *)
(*       (main: refinement and comparison, two runs side by side that      *)
(*        differ in the true script only)                  impl = "refine" *)
(* impl = "pollpair" runs the two poll loops on the same status answers.   *)
(* One run of one of the programs is one behaviour.                        *)
(*                                                                         *)
(* Python values are modelled as tagged records (PyNone, PyInt, PyStr);    *)
(* strings are sequences of one-character strings so that str.lower() and  *)
(* int() are computed character by character.                              *)
(***************************************************************************)
EXTENDS Integers, Sequences, FiniteSets, TLC

VARIABLES
    impl,          \* which program runs
    env,           \* the process environment (credentials)
    resumed,       \* script only: --task-id was given (creation skipped)
    pc,            \* position of the run
    max_attempts,  \* poll bound (parameter of poll_minimax_task / line 106)
    attempts,      \* `attempts` (cli) / `attempt` (script)
    task_id,       \* the job handle
    file_id,       \* the result reference the poll ended with
    lastResp,      \* the last status response read
    queries,       \* number of status GET requests issued so far
    sleeps,        \* number of time.sleep calls of the poll loop so far
    pollOutcome,   \* how the poll operation ended ("none" while running)
    seen,          \* history: kinds of status answers met so far
    err,           \* the error that ended the run
    exitCode,      \* process exit code (-1 while running)
    createReq,     \* number of job-creation POST requests issued
    created,       \* the job-creation response received
    downloads,     \* number of download GET requests issued
    fetched,       \* the file id the download GET asked for
    dlResp,        \* the response of the download GET
    saved,         \* bytes written to the output file
    scenario,      \* history: how far the answers follow ScenarioAnswers
    synthReq,      \* number of synchronous t2a_v2 POST requests issued
    trPc,          \* tracing programs: position of the run
    trN,           \* tracing programs: number of items to process
    trIdx,         \* tracing programs: index of the item being processed
    trSpan,        \* experiment: what start_observation returned
    trScoreErr,    \* experiment: `score_error` of the current item is set
    trItems,       \* tracing programs: the records of the items processed
    trWritten,     \* tracing programs: the result was written
    trRaised,      \* history: the tracing calls that have raised
    trErr,         \* tracing programs: the exception that ended the run
    tsPc,          \* transcribe_segment: position
    tsAttempt,     \* transcribe_segment: `attempt` of the current loop
    tsClientCalls, \* transcribe_segment: number of Client(...) calls
    tsPredictCalls,\* transcribe_segment: number of client.predict calls
    tsReturned,    \* history: number of predict calls that returned
    tsWaits,       \* transcribe_segment: the time.sleep arguments, in order
    tsRet,         \* transcribe_segment: the returned pair
    baPc,          \* batch loop: position
    baFiles,       \* batch loop: the sorted mp3 list (files named by position)
    baStart,       \* batch loop: --start-index
    baEnd,         \* batch loop: --end-index (None when omitted)
    baServer,      \* batch loop: server_url is set
    baModels,      \* batch loop: number of models in the models file
    baSlice,       \* batch loop: slice_files
    baPos,         \* batch loop: position in slice_files of the current file
    baModel,       \* batch loop: index of the current model
    baTrans,       \* batch loop: how the transcription of the current file went
    baOut,         \* batch loop: result files written for the current file
    baLog,         \* history: one record per file the loop has finished
    rfTranscript,  \* refinement: full_transcript (the same in both runs)
    rfPrev,        \* refinement: a refined file of a previous run exists
    rfTrue,        \* refinement: true_script_text of run 1 and of run 2
    rfRuns,        \* refinement: position, refined_text and requests of each
    question,      \* cli: the question of the command line or of input()
    chatReq,       \* cli: chat requests issued
    chatResp,      \* cli: what the chat server answered
    reply,         \* cli: what query_server returned
    ttsText,       \* cli: the "text" of the job-creation payload
    eqMax,         \* poll pair: max_attempts given to both loops
    eqAnswers,     \* poll pair: the status answers, in order
    eqCli,         \* poll pair: how poll_minimax_task ended
    eqScript       \* poll pair: how the loop of minimax_poll.py ended

\* the variables of the text-to-speech programs, apart from impl
ttsVars == <<env, resumed, pc, max_attempts, attempts, task_id,
             file_id, lastResp, queries, sleeps, pollOutcome, seen, err,
             exitCode, createReq, created, downloads, fetched, dlResp, saved,
             scenario, synthReq, question, chatReq, chatResp, reply, ttsText>>

\* the variables of the chat step of the cli
chatVars == <<question, chatReq, chatResp, reply>>

\* the variables of the tracing programs
traceVars == <<trPc, trN, trIdx, trSpan, trScoreErr, trItems, trWritten,
               trRaised, trErr>>

\* the variables of transcribe_segment
retryVars == <<tsPc, tsAttempt, tsClientCalls, tsPredictCalls, tsReturned,
               tsWaits, tsRet>>

\* the variables of the batch transcribe-and-correct loop
batchVars == <<baPc, baFiles, baStart, baEnd, baServer, baModels, baSlice,
               baPos, baModel, baTrans, baOut, baLog>>

\* the variables of the refinement step of qwen_audio_processor.py
refineVars == <<rfTranscript, rfPrev, rfTrue, rfRuns>>

\* the variables of the two poll loops run side by side
pairVars == <<eqMax, eqAnswers, eqCli, eqScript>>

\* everything but impl and the variables of one program
exceptTts == <<traceVars, retryVars, batchVars, refineVars, pairVars>>
exceptTrace == <<ttsVars, retryVars, batchVars, refineVars, pairVars>>
exceptRetry == <<ttsVars, traceVars, batchVars, refineVars, pairVars>>
exceptBatch == <<ttsVars, traceVars, retryVars, refineVars, pairVars>>
exceptRefine == <<ttsVars, traceVars, retryVars, batchVars, pairVars>>
exceptPair == <<ttsVars, traceVars, retryVars, batchVars, refineVars>>

vars == <<impl, ttsVars, traceVars, retryVars, batchVars, refineVars,
          pairVars>>

----------------------------------------------------------------------------
(* Bounds *)

MaxAttempts == 5

\* largest number of items a tracing program is given
MaxItems == 2

\* largest number of mp3 files in the directory of the batch loop
MaxFiles == 2

\* largest number of models in the models file
MaxModels == 2

\* largest max_attempts given to the two poll loops run side by side
MaxPairAttempts == 3

----------------------------------------------------------------------------
(* Python values *)

PyNone == [t |-> "none", n |-> 0, s |-> <<>>]

PyInt(k) == [t |-> "int", n |-> k, s |-> <<>>]

PyStr(str) == [t |-> "str", n |-> 0, s |-> str]

\* variant: only None is false (`is not None`)
TruthyNotNone(x) == x.t # "none"

\* truth value of a Python object: None, 0 and "" are false
Truthy(x) == CASE x.t = "none" -> FALSE
               [] x.t = "int" -> x.n # 0
               [] OTHER -> x.s # <<>>

\* Python `a or b`
PyOr(a, b) == IF Truthy(a) THEN a ELSE b

UpperLetters == <<"A","B","C","D","E","F","G","H","I","J","K","L","M",
                  "N","O","P","Q","R","S","T","U","V","W","X","Y","Z">>

LowerLetters == <<"a","b","c","d","e","f","g","h","i","j","k","l","m",
                  "n","o","p","q","r","s","t","u","v","w","x","y","z">>

LowerChar(c) ==
    IF \E i \in 1..26 : UpperLetters[i] = c
    THEN LowerLetters[CHOOSE i \in 1..26 : UpperLetters[i] = c]
    ELSE c

UpperChar(c) ==
    IF \E i \in 1..26 : LowerLetters[i] = c
    THEN UpperLetters[CHOOSE i \in 1..26 : LowerLetters[i] = c]
    ELSE c

\* str.lower()
Lower(str) == [i \in 1..Len(str) |-> LowerChar(str[i])]

Digits == <<"0","1","2","3","4","5","6","7","8","9">>

IsDigit(c) == \E i \in 1..10 : Digits[i] = c

DigitVal(c) == (CHOOSE i \in 1..10 : Digits[i] = c) - 1

RECURSIVE ParseDigits(_)
ParseDigits(str) ==
    IF str = <<>> THEN 0
    ELSE 10 * ParseDigits(SubSeq(str, 1, Len(str) - 1)) + DigitVal(str[Len(str)])

\* int(x) succeeds on an int and on a non-empty string of decimal digits
IntOk(x) ==
    \/ x.t = "int"
    \/ x.t = "str" /\ x.s # <<>> /\ \A i \in 1..Len(x.s) : IsDigit(x.s[i])

\* int(x)
IntOf(x) == IF x.t = "int" THEN PyInt(x.n) ELSE PyInt(ParseDigits(x.s))

----------------------------------------------------------------------------
(* String literals of the source and of the service *)

sSuccess == <<"S","u","c","c","e","s","s">>

sFailedLower == <<"f","a","i","l","e","d">>

sErrorLower == <<"e","r","r","o","r">>

sFailedCap == <<"F","a","i","l","e","d">>

sProcessing == <<"P","r","o","c","e","s","s","i","n","g">>

\* the word with the characters at the positions U in upper case
Casing(word, U) ==
    [i \in 1..Len(word) |-> IF i \in U THEN UpperChar(word[i]) ELSE word[i]]

AllCasings(word) == {Casing(word, U) : U \in SUBSET (1..Len(word))}

AllUpper(word) == Casing(word, 1..Len(word))

Capitalized(word) == Casing(word, {1})

\* every casing of "failed" and of "error"
FailureCasings == AllCasings(sFailedLower) \cup AllCasings(sErrorLower)

----------------------------------------------------------------------------
(* Responses of the remote service *)

HttpCodes == {200, 400, 500}

sId42 == <<"4","2">>

sIdAbc == <<"a","b","c">>

\* values the service may put under "task_id" / "taskId"
TaskIdValues ==
    {PyNone, PyStr(<<>>), PyInt(0), PyInt(42), PyStr(sId42), PyStr(sIdAbc)}

TaskIdAltValues == {PyNone, PyInt(7)}

\* "base_resp" absent (PyNone) or its status_code
BaseRespValues == {PyNone, PyInt(0), PyInt(1004)}

ErrorBody == "{\"error\":\"bad voice_id\"}"

CreateTransport ==
    [kind |-> "transport", code |-> 0, isJson |-> FALSE, text |-> "",
     task_id |-> PyNone, taskId |-> PyNone, base_resp |-> PyNone]

\* what the job-creation POST can produce: a transport exception, a body
\* that is not JSON, a JSON error envelope, or a JSON object with identifiers
CreateResponses ==
    {CreateTransport}
    \cup {[kind |-> "http", code |-> c, isJson |-> FALSE, text |-> "Bad Gateway",
           task_id |-> PyNone, taskId |-> PyNone, base_resp |-> PyNone] :
          c \in HttpCodes}
    \cup {[kind |-> "http", code |-> c, isJson |-> TRUE, text |-> ErrorBody,
           task_id |-> PyNone, taskId |-> PyNone, base_resp |-> b] :
          c \in HttpCodes, b \in BaseRespValues}
    \cup {[kind |-> "http", code |-> c, isJson |-> TRUE, text |-> "{...}",
           task_id |-> a, taskId |-> b, base_resp |-> br] :
          c \in HttpCodes, a \in TaskIdValues, b \in TaskIdAltValues,
          br \in {PyNone, PyInt(0)}}

\* the POST never returns
CreateHang == [CreateTransport EXCEPT !.kind = "hang"]

NoResp == [kind |-> "none", status |-> PyNone, task_status |-> PyNone,
           file_id |-> PyNone]

\* requests.get raised (connection refused, DNS, ...)
StatusTransport == [kind |-> "transport", status |-> PyNone,
                    task_status |-> PyNone, file_id |-> PyNone]

\* a body for which response.json() raises
StatusBadJson == [kind |-> "badjson", status |-> PyNone,
                  task_status |-> PyNone, file_id |-> PyNone]

\* the GET never returns
StatusHang == [kind |-> "hang", status |-> PyNone, task_status |-> PyNone,
               file_id |-> PyNone]

\* what response.json() is replaced by when it raises: {}
EmptyDict == [kind |-> "json", status |-> PyNone, task_status |-> PyNone,
              file_id |-> PyNone]

sF9 == <<"f","9">>

sF7 == <<"f","7">>

FileIdValues == {PyNone, PyStr(<<>>), PyStr(sF9), PyStr(sF7)}

\* status strings the service answers with
StatusStrings ==
    {sSuccess, Lower(sSuccess), AllUpper(sSuccess), sProcessing,
     sFailedLower, sFailedCap, AllUpper(sFailedLower),
     sErrorLower, Capitalized(sErrorLower), AllUpper(sErrorLower)}

StatusValues == {PyNone, PyStr(<<>>)} \cup {PyStr(w) : w \in StatusStrings}

\* "task_status" is read only when "status" is absent or empty, so it is
\* varied only then
TaskStatusValues(st) ==
    IF ~Truthy(st) THEN {PyNone, PyStr(sSuccess), PyStr(sFailedLower)}
    ELSE {PyNone}

\* what one status GET can produce
StatusResponses ==
    {StatusTransport, StatusBadJson}
    \cup UNION {{[kind |-> "json", status |-> st, task_status |-> ts,
                  file_id |-> f] :
                 ts \in TaskStatusValues(st), f \in FileIdValues} :
                st \in StatusValues}

AudioBytes == "ID3-mp3-bytes"

NoDownload == [kind |-> "none", code |-> 0, content |-> "", text |-> ""]

DownloadHang == [NoDownload EXCEPT !.kind = "hang"]

\* resp.content is the body as bytes, resp.text the body decoded to a string
DownloadResponses ==
    {[NoDownload EXCEPT !.kind = "transport"]}
    \cup {[kind |-> "http", code |-> c,
           content |-> IF c = 200 THEN AudioBytes ELSE ErrorBody,
           text |-> IF c = 200 THEN "ID3-mp3-decoded" ELSE ErrorBody] :
          c \in HttpCodes}

----------------------------------------------------------------------------
(* Errors and run endings *)

NoErr == [type |-> "none", msg |-> "", code |-> 0, text |-> "", data |-> NoResp]

Error(type, msg) == [type |-> type, msg |-> msg, code |-> 0, text |-> "",
                     data |-> NoResp]

NoCreated == [code |-> 0, isJson |-> FALSE, text |-> "", task_id |-> PyNone,
              taskId |-> PyNone]

\* what is remembered of the job-creation response
Received(r) == [code |-> r.code, isJson |-> r.isJson, text |-> r.text,
                task_id |-> r.task_id, taskId |-> r.taskId]

\* the timeout= argument of the requests call of a step: query_server
\* passes timeout=20 to its POST ("chat"); none of the other calls
\* ("create", "status", "download", "synth") passes one
RequestTimeout(prog, step) ==
    IF prog = "cli" /\ step = "chat" THEN PyInt(20) ELSE PyNone

\* requests waits without bound when timeout is None; with a timeout it
\* raises (a transport exception) instead
Outcomes(answers, hang, timeout) ==
    IF timeout = PyNone THEN answers \cup {hang} ELSE answers

\* the process is blocked in a request that never returns
Hung ==
    /\ pc' = "hung"
    /\ UNCHANGED <<err, exitCode>>

\* variant: only server errors raise
RaisesForStatusServerOnly(code) == code >= 500 /\ code < 600

\* Response.raise_for_status(): raises HTTPError for 4xx and 5xx
RaisesForStatus(code) == code >= 400 /\ code < 600

\* variant: the error is printed and the run ends with code 0
FailQuiet(e) ==
    /\ pc' = "exit"
    /\ err' = e
    /\ exitCode' = 0

\* main's `except Exception as e: print(...); sys.exit(1)` (cli), or an
\* exit(1) / uncaught exception of the script: the run ends with code 1
Fail(e) ==
    /\ pc' = "exit"
    /\ err' = e
    /\ exitCode' = 1

----------------------------------------------------------------------------
(* Initial states *)

sKey == <<"k","e","y">>

\* an environment variable is unset, set to "", or set
EnvValues == {PyNone, PyStr(<<>>), PyStr(sKey)}

\* the credentials a program reads with os.environ.get
EnvNames(prog) ==
    IF prog = "cli" THEN {"SERVER_IP", "MINIMAX_API_KEY"}
    ELSE IF prog \in {"script", "voice"} THEN {"MINIMAX_API_KEY"}
    ELSE {}

\* the programs that call the tracing client
TraceProgs == {"experiment", "correct", "send"}

Programs == {"cli", "script", "voice", "transcribe", "batch", "refine",
             "pollpair"}
                \cup TraceProgs

\* no chat request was made
NoChat == [kind |-> "none", code |-> 0, shape |-> "none", value |-> PyNone,
           text |-> <<>>]

\* the status answers given to the two poll loops run side by side
PairAnswers ==
    {StatusBadJson,
     [kind |-> "json", status |-> PyStr(sSuccess), task_status |-> PyNone,
      file_id |-> PyStr(sF9)]}
    \cup {[kind |-> "json", status |-> PyStr(w), task_status |-> PyNone,
           file_id |-> PyNone] :
            w \in {sSuccess, sProcessing, sFailedLower, sFailedCap,
                   AllUpper(sFailedLower), Capitalized(sErrorLower)}}

\* a poll loop that has not run
NotPolled == [queries |-> 0, outcome |-> "none", file_id |-> PyNone]

\* the sentinel False of an explicitly skipped comparison
PyFalse == [t |-> "bool", n |-> 0, s |-> <<>>]

\* full_transcript: empty, blank, or text
Transcripts == {<<>>, <<" ">>, <<"a", " ", "b">>}

\* true_script_text: not found, skipped, empty, or one of two texts
TrueScripts == {PyNone, PyFalse, PyStr(<<>>), PyStr(<<"x">>),
                PyStr(<<"y", " ", " ", "z">>)}

\* a run of the refinement step before it starts
FreshRun == [pc |-> "refine", refined |-> PyNone, sent |-> <<>>]

\* the values argparse gives --start-index and --end-index
IndexArgs == {PyInt(k) : k \in -1..(MaxFiles + 1)}

\* transcribe_segment has not returned
NoReturn == [text |-> PyNone, raw |-> [kind |-> "none"]]

Init ==
    /\ impl \in Programs
    /\ env \in [EnvNames(impl) -> EnvValues]
    /\ \E arg \in {PyNone, PyInt(0), PyInt(42)} :
          \* --task-id (script only); `if args.task_id:` skips creation
          /\ resumed = (impl = "script" /\ Truthy(arg))
          /\ task_id = IF impl = "script" /\ Truthy(arg) THEN arg ELSE PyNone
    /\ pc = "start"
    /\ max_attempts \in 0..MaxAttempts
    /\ impl = "script" => max_attempts >= 1
    /\ impl \notin {"cli", "script"} => max_attempts = 0
    /\ attempts = 0
    /\ file_id = PyNone
    /\ lastResp = NoResp
    /\ queries = 0
    /\ sleeps = 0
    /\ pollOutcome = "none"
    /\ seen = {}
    /\ err = NoErr
    /\ exitCode = -1
    /\ createReq = 0
    /\ created = NoCreated
    /\ downloads = 0
    /\ fetched = PyNone
    /\ dlResp = NoDownload
    /\ saved = ""
    /\ scenario = 0
    /\ synthReq = 0
    /\ question = PyNone
    /\ chatReq = 0
    /\ chatResp = NoChat
    /\ reply = PyNone
    /\ ttsText = PyNone
    /\ trPc = "begin"
    /\ trN \in IF impl \in TraceProgs THEN 1..MaxItems ELSE {0}
    /\ trIdx = 1
    /\ trSpan = "unset"
    /\ trScoreErr = FALSE
    /\ trItems = <<>>
    /\ trWritten = FALSE
    /\ trRaised = {}
    /\ trErr = ""
    /\ tsPc = "client"
    /\ tsAttempt = 1
    /\ tsClientCalls = 0
    /\ tsPredictCalls = 0
    /\ tsReturned = 0
    /\ tsWaits = <<>>
    /\ tsRet = NoReturn
    /\ baPc = "args"
    /\ baFiles \in IF impl = "batch" THEN {[i \in 1..n |-> i] : n \in 0..MaxFiles}
                  ELSE {<<>>}
    /\ baStart \in IF impl = "batch" THEN IndexArgs ELSE {PyInt(1)}
    /\ baEnd \in IF impl = "batch" THEN IndexArgs \cup {PyNone} ELSE {PyNone}
    /\ baServer \in IF impl = "batch" THEN BOOLEAN ELSE {FALSE}
    /\ baModels \in IF impl = "batch" THEN {0, MaxModels} ELSE {0}
    /\ baSlice = <<>>
    /\ baPos = 1
    /\ baModel = 1
    /\ baTrans = "none"
    /\ baOut = <<>>
    /\ baLog = <<>>
    /\ rfTranscript \in IF impl = "refine" THEN Transcripts ELSE {<<>>}
    /\ rfPrev \in IF impl = "refine" THEN BOOLEAN ELSE {FALSE}
    /\ rfTrue \in IF impl = "refine" THEN TrueScripts \X TrueScripts
                 ELSE {<<PyNone, PyNone>>}
    /\ rfRuns = <<FreshRun, FreshRun>>
    /\ eqMax \in IF impl = "pollpair" THEN 1..MaxPairAttempts ELSE {0}
    /\ eqAnswers \in IF impl = "pollpair"
                    THEN [1..MaxPairAttempts -> PairAnswers] ELSE {<<>>}
    /\ eqCli = NotPolled
    /\ eqScript = NotPolled

----------------------------------------------------------------------------
(* Environment checks at program start *)

\* variant: MINIMAX_API_KEY is not checked
CliConfigErrorServerOnly(e) ==
    IF ~Truthy(e["SERVER_IP"]) THEN "Error: SERVER_IP not set" ELSE ""

\* ai_minimax_tts_cli.py: the message of the first failing check, "" if none
CliConfigError(e) ==
    IF ~Truthy(e["SERVER_IP"]) THEN "Error: SERVER_IP not set"
    ELSE IF ~Truthy(e["MINIMAX_API_KEY"]) THEN "Error: MINIMAX_API_KEY not set"
    ELSE ""

\* minimax_poll.py
ScriptConfigError(e) ==
    IF ~Truthy(e["MINIMAX_API_KEY"])
    THEN "Error: MINIMAX_API_KEY environment variable is not set"
    ELSE ""

\* use_cloned_voice.py
VoiceConfigError(e) ==
    IF ~Truthy(e["MINIMAX_API_KEY"]) THEN "Error: MINIMAX_API_KEY not found."
    ELSE ""

\* everything but pc, err and exitCode
runVars == <<impl, env, resumed, max_attempts, attempts, task_id, file_id,
             lastResp, queries, sleeps, pollOutcome, seen, createReq, created,
             downloads, fetched, dlResp, saved, scenario, synthReq,
             question, chatReq, chatResp, reply, ttsText>>

\* module level of ai_minimax_tts_cli.py: sys.exit(1) on a missing variable
CliStart ==
    /\ UNCHANGED exceptTts
    /\ impl = "cli" /\ pc = "start"
    /\ IF CliConfigError(env) # ""
       THEN Fail(Error("SystemExit", CliConfigError(env)))
       ELSE pc' = "question" /\ UNCHANGED <<err, exitCode>>
    /\ UNCHANGED runVars

\* module level of minimax_poll.py: exit(1) on a missing key, then --task-id
ScriptStart ==
    /\ UNCHANGED exceptTts
    /\ impl = "script" /\ pc = "start"
    /\ IF ScriptConfigError(env) # ""
       THEN Fail(Error("SystemExit", ScriptConfigError(env)))
       ELSE /\ pc' = IF resumed THEN "poll" ELSE "create"
            /\ UNCHANGED <<err, exitCode>>
    /\ UNCHANGED runVars

\* main of use_cloned_voice.py: print and return on a missing key
VoiceStart ==
    /\ UNCHANGED exceptTts
    /\ impl = "voice" /\ pc = "start"
    /\ IF VoiceConfigError(env) # ""
       THEN /\ pc' = "exit"
            /\ err' = Error("Printed", VoiceConfigError(env))
            /\ exitCode' = 0
       ELSE pc' = "synth" /\ UNCHANGED <<err, exitCode>>
    /\ UNCHANGED runVars

\* what the t2a_v2 POST can produce; audio is res["data"]["audio"], PyNone
\* when "data" is missing
SynthResponses ==
    {[kind |-> "transport", code |-> 0, isJson |-> FALSE, base_resp |-> PyNone,
      hasData |-> FALSE, audio |-> PyNone]}
    \cup {[kind |-> "http", code |-> c, isJson |-> FALSE, base_resp |-> PyNone,
           hasData |-> FALSE, audio |-> PyNone] : c \in HttpCodes}
    \cup {[kind |-> "http", code |-> c, isJson |-> TRUE, base_resp |-> b,
           hasData |-> d, audio |-> IF d THEN a ELSE PyNone] :
          c \in HttpCodes, b \in BaseRespValues, d \in BOOLEAN,
          a \in {PyStr(<<>>), PyStr(<<"4","9","4","4">>)}}

SynthHang ==
    [kind |-> "hang", code |-> 0, isJson |-> FALSE, base_resp |-> PyNone,
     hasData |-> FALSE, audio |-> PyNone]

\* generate_tts as called from main of use_cloned_voice.py; main catches
\* every exception, prints it and returns
VoiceGenerate ==
    /\ UNCHANGED exceptTts
    /\ impl = "voice" /\ pc = "synth"
    /\ synthReq' = synthReq + 1
    /\ \E r \in Outcomes(SynthResponses, SynthHang,
                        RequestTimeout("voice", "synth")) :
         IF r.kind = "hang"
         THEN Hung /\ UNCHANGED saved
         ELSE /\ pc' = "exit"
              /\ exitCode' = 0
              /\ IF r.kind = "transport"
                 THEN /\ err' = Error("ConnectionError", "requests.post raised")
                      /\ UNCHANGED saved
                 ELSE IF RaisesForStatus(r.code)
                 THEN /\ err' = [Error("HTTPError", "raise_for_status")
                                 EXCEPT !.code = r.code]
                      /\ UNCHANGED saved
                 ELSE IF ~r.isJson
                 THEN /\ err' = Error("JSONDecodeError", "resp.json() raised")
                      /\ UNCHANGED saved
                 ELSE IF r.base_resp # PyInt(0)
                 THEN /\ err' = Error("RuntimeError", "TTS Generation failed")
                      /\ UNCHANGED saved
                 ELSE IF r.hasData /\ Truthy(r.audio)
                 THEN /\ saved' = AudioBytes
                      /\ UNCHANGED err
                 ELSE IF r.hasData
                 THEN /\ err' = Error("Printed", "Could not find audio string")
                      /\ UNCHANGED saved
                 ELSE /\ err' = Error("Printed", "Unexpected response format")
                      /\ UNCHANGED saved
    /\ UNCHANGED <<impl, env, resumed, max_attempts, attempts, task_id, file_id,
                   chatVars, ttsText,
                   lastResp, queries, sleeps, pollOutcome, seen, createReq,
                   created, downloads, fetched, dlResp, scenario>>

----------------------------------------------------------------------------
(* Job creation *)

\* create_minimax_tts as called from main (ai_minimax_tts_cli.py)
CliCreate ==
    /\ UNCHANGED exceptTts
    /\ impl = "cli" /\ pc = "create"
    /\ createReq' = createReq + 1
    /\ ttsText' = reply
    /\ \E r \in Outcomes(CreateResponses, CreateHang,
                        RequestTimeout("cli", "create")) :
         /\ created' = Received(r)
         /\ IF r.kind = "hang"
            THEN /\ Hung
                 /\ UNCHANGED task_id
            ELSE IF r.kind = "transport"
            THEN /\ Fail(Error("ConnectionError", "requests.post raised"))
                 /\ UNCHANGED task_id
            ELSE IF RaisesForStatus(r.code)
            THEN /\ Fail([Error("RuntimeError", "Minimax TTS creation failed")
                          EXCEPT !.code = r.code, !.text = r.text])
                 /\ UNCHANGED task_id
            ELSE IF ~r.isJson
            THEN /\ Fail(Error("JSONDecodeError", "resp.json() raised"))
                 /\ UNCHANGED task_id
            ELSE LET tid == PyOr(r.task_id, r.taskId) IN
                 IF ~Truthy(tid)
                 THEN /\ Fail([Error("RuntimeError", "No task_id in Minimax response")
                               EXCEPT !.text = r.text])
                      /\ UNCHANGED task_id
                 ELSE IF ~IntOk(tid)
                 THEN /\ Fail(Error("ValueError", "int() raised"))
                      /\ UNCHANGED task_id
                 ELSE /\ task_id' = IntOf(tid)
                      /\ pc' = "poll"
                      /\ UNCHANGED <<err, exitCode>>
    /\ UNCHANGED <<impl, resumed, env, synthReq, chatVars, scenario, dlResp,
                   seen, max_attempts, attempts, file_id,
                   lastResp, queries, sleeps, pollOutcome, downloads, fetched,
                   saved>>

\* Step 1 of minimax_poll.py (the else branch of `if args.task_id:`)
ScriptCreate ==
    /\ UNCHANGED exceptTts
    /\ impl = "script" /\ pc = "create"
    /\ createReq' = createReq + 1
    /\ \E r \in Outcomes(CreateResponses, CreateHang,
                        RequestTimeout("script", "create")) :
         /\ created' = Received(r)
         /\ IF r.kind = "hang"
            THEN /\ Hung
                 /\ UNCHANGED task_id
            ELSE IF r.kind = "transport"
            THEN /\ Fail(Error("ConnectionError", "requests.request raised"))
                 /\ UNCHANGED task_id
            ELSE IF r.code >= 400
            THEN /\ Fail([Error("SystemExit", "Error: HTTP status")
                          EXCEPT !.code = r.code, !.text = r.text])
                 /\ UNCHANGED task_id
            ELSE IF r.isJson /\ r.base_resp # PyNone /\ r.base_resp # PyInt(0)
            THEN /\ Fail([Error("SystemExit", "API Error")
                          EXCEPT !.code = r.code, !.text = r.text])
                 /\ UNCHANGED task_id
            ELSE LET tid == IF r.isJson THEN r.task_id ELSE PyNone IN
                 IF ~Truthy(tid)
                 THEN /\ Fail([Error("SystemExit", "Error: No task_id in response")
                               EXCEPT !.code = r.code, !.text = r.text])
                      /\ UNCHANGED task_id
                 ELSE /\ task_id' = tid
                      /\ pc' = "poll"
                      /\ UNCHANGED <<err, exitCode>>
    /\ UNCHANGED <<impl, resumed, env, synthReq, chatVars, ttsText, scenario, dlResp,
                   seen, max_attempts, attempts, file_id,
                   lastResp, queries, sleeps, pollOutcome, downloads, fetched,
                   saved>>

----------------------------------------------------------------------------
(* What a status answer says, read off the answer itself *)

Absent(v) == v = PyNone \/ v = PyStr(<<>>)

\* the status the service reports: under "status", else under "task_status"
ReportedStatus(r) == IF Absent(r.status) THEN r.task_status ELSE r.status

\* status Success with a result reference
SuccessWithRef(r) ==
    r.kind = "json" /\ ReportedStatus(r) = PyStr(sSuccess) /\ ~Absent(r.file_id)

\* status Success without a result reference
SuccessNoRef(r) ==
    r.kind = "json" /\ ReportedStatus(r) = PyStr(sSuccess) /\ Absent(r.file_id)

\* status failed, exactly as the service documents it
FailedExact(r) == r.kind = "json" /\ ReportedStatus(r) = PyStr(sFailedLower)

\* status failed or error in any casing
FailedAnyCase(r) ==
    /\ r.kind = "json"
    /\ ReportedStatus(r).t = "str"
    /\ ReportedStatus(r).s \in FailureCasings

\* status is "Success" in another casing, with a result reference
MiscasedSuccess(r) ==
    /\ r.kind = "json"
    /\ ReportedStatus(r).t = "str"
    /\ ReportedStatus(r).s # sSuccess
    /\ Lower(ReportedStatus(r).s) = Lower(sSuccess)
    /\ ~Absent(r.file_id)

\* history marks left by a status query: it raised, or it was answered
\* (and the answer was Success without a reference, a failure status in
\* some casing, Success in another casing with a reference, or none of
\* the last)
Marks(r) ==
    IF r.kind = "hang" THEN {}
    ELSE IF r.kind = "transport" THEN {"transport"}
    ELSE {"answered"}
         \cup (IF SuccessNoRef(r) THEN {"ambiguous"} ELSE {})
         \cup (IF FailedAnyCase(r) THEN {"failure"} ELSE {})
         \cup (IF MiscasedSuccess(r) THEN {"miscased"} ELSE {"plain"})

\* the status answers of the documented scenario
ScenarioAnswers ==
    LET Answer(st, f) == [kind |-> "json", status |-> PyStr(st),
                          task_status |-> PyNone, file_id |-> f]
    IN  <<Answer(sProcessing, PyNone), Answer(sProcessing, PyNone),
          Answer(sSuccess, PyStr(sF9))>>

\* history: the number of scenario answers read so far, -1 once the answers
\* differ from the scenario
ScenarioNext(sc, r) ==
    IF sc >= 0 /\ sc < Len(ScenarioAnswers) /\ r = ScenarioAnswers[sc + 1]
    THEN sc + 1
    ELSE -1

----------------------------------------------------------------------------
(* Polling *)

\* the dict the loop works on: response.json(), or {} when it raised
ParsedBody(r) == IF r.kind = "badjson" THEN EmptyDict ELSE r

\* status = data.get("status") or data.get("task_status")
EffectiveStatus(data) == PyOr(data.status, data.task_status)

\* variant: compares without regard to case
IsSuccessAnyCase(status) ==
    Truthy(status) /\ Lower(status.s) = Lower(sSuccess)

\* variant: compares with "success"
IsSuccessLowercase(status) == status = PyStr(Lower(sSuccess))

\* variant: an absent status also counts as done
IsSuccessOrAbsent(status) == status = PyStr(sSuccess) \/ ~Truthy(status)

\* status == "Success"
IsSuccess(status) == status = PyStr(sSuccess)

\* variant: the reference is not looked at
HasFileIdUnchecked(data) == data.kind = "json"

\* file_id = data.get("file_id"); if file_id:
HasFileId(data) == Truthy(data.file_id)

\* cli: status and status.lower() in ("failed", "error")
CliIsFailure(status) ==
    Truthy(status) /\ Lower(status.s) \in {sFailedLower, sErrorLower}

\* variant: the literal "failed" is missing from the tuple
ScriptIsFailureNoFailed(status) ==
    status \in {PyStr(sErrorLower), PyStr(sFailedCap)}

\* script: status in ("failed", "error", "Failed")
ScriptIsFailure(status) ==
    status \in {PyStr(sFailedLower), PyStr(sErrorLower), PyStr(sFailedCap)}

\* variant: off by one
CliLoopGuardInclusive(a, m) == a <= m

\* cli: while attempts < max_attempts
CliLoopGuard(a, m) == a < m

\* variant: one attempt more
ScriptExhaustedLate(a, m) == a > m

\* script: if attempt >= max_attempts
ScriptExhausted(a, m) == a >= m

\* one iteration of the while loop of poll_minimax_task, up to the sleep
CliPollIter ==
    /\ UNCHANGED exceptTts
    /\ impl = "cli" /\ pc = "poll"
    /\ CliLoopGuard(attempts, max_attempts)
    /\ attempts' = attempts + 1
    /\ queries' = queries + 1
    /\ \E r \in Outcomes(StatusResponses, StatusHang,
                        RequestTimeout("cli", "status")) :
         /\ lastResp' = r
         /\ seen' = seen \cup Marks(r)
         /\ scenario' = ScenarioNext(scenario, r)
         /\ IF r.kind = "hang"
            THEN /\ Hung
                 /\ UNCHANGED <<pollOutcome, file_id>>
            ELSE IF r.kind = "transport"
            THEN \* requests.get is outside the try: the exception leaves
                 \* poll_minimax_task and is caught by main
                 /\ pollOutcome' = "exception"
                 /\ Fail(Error("ConnectionError", "requests.get raised"))
                 /\ UNCHANGED file_id
            ELSE LET data == ParsedBody(r)
                     status == EffectiveStatus(data) IN
                 IF IsSuccess(status) /\ HasFileId(data)
                 THEN /\ pollOutcome' = "success"
                      /\ file_id' = data.file_id
                      /\ pc' = "download"
                      /\ UNCHANGED <<err, exitCode>>
                 ELSE IF ~IsSuccess(status) /\ CliIsFailure(status)
                 THEN /\ pollOutcome' = "failed"
                      /\ Fail([Error("RuntimeError", "Minimax task failed")
                               EXCEPT !.data = data])
                      /\ UNCHANGED file_id
                 ELSE /\ pc' = "sleep"
                      /\ UNCHANGED <<pollOutcome, file_id, err, exitCode>>
    /\ UNCHANGED <<impl, resumed, env, synthReq, chatVars, ttsText, dlResp,
                   max_attempts, task_id, sleeps,
                   createReq, created, downloads, fetched, saved>>

\* time.sleep(interval) at the end of the loop body
CliSleep ==
    /\ UNCHANGED exceptTts
    /\ impl = "cli" /\ pc = "sleep"
    /\ sleeps' = sleeps + 1
    /\ pc' = "poll"
    /\ UNCHANGED <<impl, resumed, env, synthReq, chatVars, ttsText, scenario, dlResp,
                   seen, max_attempts, attempts, task_id,
                   file_id, lastResp, queries, pollOutcome, err, exitCode,
                   createReq, created, downloads, fetched, saved>>

\* the loop condition is false: raise RuntimeError("Minimax polling timed out")
CliPollTimeout ==
    /\ UNCHANGED exceptTts
    /\ impl = "cli" /\ pc = "poll"
    /\ ~CliLoopGuard(attempts, max_attempts)
    /\ pollOutcome' = "timeout"
    /\ Fail(Error("RuntimeError", "Minimax polling timed out"))
    /\ UNCHANGED <<impl, resumed, env, synthReq, chatVars, ttsText, scenario, dlResp,
                   seen, max_attempts, attempts, task_id,
                   file_id, lastResp, queries, sleeps, createReq, created,
                   downloads, fetched, saved>>

\* one iteration of the `while True` loop of minimax_poll.py, up to the sleep
ScriptPollIter ==
    /\ UNCHANGED exceptTts
    /\ impl = "script" /\ pc = "poll"
    /\ attempts' = attempts + 1
    /\ queries' = queries + 1
    /\ \E r \in Outcomes(StatusResponses, StatusHang,
                        RequestTimeout("script", "status")) :
         /\ lastResp' = r
         /\ seen' = seen \cup Marks(r)
         /\ scenario' = ScenarioNext(scenario, r)
         /\ IF r.kind = "hang"
            THEN /\ Hung
                 /\ UNCHANGED <<pollOutcome, file_id>>
            ELSE IF r.kind = "transport"
            THEN \* uncaught: traceback, exit code 1
                 /\ pollOutcome' = "exception"
                 /\ Fail(Error("ConnectionError", "requests.request raised"))
                 /\ UNCHANGED file_id
            ELSE LET data == ParsedBody(r)
                     status == EffectiveStatus(data) IN
                 IF IsSuccess(status) /\ HasFileId(data)
                 THEN /\ pollOutcome' = "success"
                      /\ file_id' = data.file_id
                      /\ pc' = "download"
                      /\ UNCHANGED <<err, exitCode>>
                 ELSE IF ~IsSuccess(status) /\ ScriptIsFailure(status)
                 THEN \* prints the failure; with --task-id the name
                      \* post_response_json (line 134) was never assigned
                      /\ pollOutcome' = "failed"
                      /\ Fail([Error(IF resumed THEN "NameError" ELSE "SystemExit",
                                     "Task failed with status")
                               EXCEPT !.data = data])
                      /\ UNCHANGED file_id
                 ELSE IF ScriptExhausted(attempts', max_attempts)
                 THEN /\ pollOutcome' = "timeout"
                      /\ Fail(Error("SystemExit", "Error: Polling timed out"))
                      /\ UNCHANGED file_id
                 ELSE /\ pc' = "sleep"
                      /\ UNCHANGED <<pollOutcome, file_id, err, exitCode>>
    /\ UNCHANGED <<impl, resumed, env, synthReq, chatVars, ttsText, dlResp,
                   max_attempts, task_id, sleeps,
                   createReq, created, downloads, fetched, saved>>

\* time.sleep(2)
ScriptSleep ==
    /\ UNCHANGED exceptTts
    /\ impl = "script" /\ pc = "sleep"
    /\ sleeps' = sleeps + 1
    /\ pc' = "poll"
    /\ UNCHANGED <<impl, resumed, env, synthReq, chatVars, ttsText, scenario, dlResp,
                   seen, max_attempts, attempts, task_id,
                   file_id, lastResp, queries, pollOutcome, err, exitCode,
                   createReq, created, downloads, fetched, saved>>

----------------------------------------------------------------------------
(* Download *)

\* variant: the decoded text is written
WrittenText(r) == r.text

\* f.write(resp.content)
WrittenBytes(r) == r.content

\* download_file as called from main (ai_minimax_tts_cli.py)
CliDownload ==
    /\ UNCHANGED exceptTts
    /\ impl = "cli" /\ pc = "download"
    /\ downloads' = downloads + 1
    /\ fetched' = file_id
    /\ \E r \in Outcomes(DownloadResponses, DownloadHang,
                        RequestTimeout("cli", "download")) :
       /\ dlResp' = r
       /\ IF r.kind = "hang"
         THEN /\ Hung
              /\ UNCHANGED saved
         ELSE IF r.kind = "transport"
         THEN /\ Fail(Error("ConnectionError", "requests.get raised"))
              /\ UNCHANGED saved
         ELSE IF RaisesForStatus(r.code)
         THEN /\ Fail([Error("HTTPError", "raise_for_status")
                       EXCEPT !.code = r.code])
              /\ UNCHANGED saved
         ELSE /\ saved' = WrittenBytes(r)
              /\ pc' = "exit"
              /\ exitCode' = 0
              /\ UNCHANGED err
    /\ UNCHANGED <<impl, resumed, env, synthReq, chatVars, ttsText, scenario,
                   seen, max_attempts, attempts, task_id,
                   file_id, lastResp, queries, sleeps, pollOutcome, createReq,
                   created>>

\* Step 3 of minimax_poll.py
ScriptDownload ==
    /\ UNCHANGED exceptTts
    /\ impl = "script" /\ pc = "download"
    /\ downloads' = downloads + 1
    /\ fetched' = file_id
    /\ \E r \in Outcomes(DownloadResponses, DownloadHang,
                        RequestTimeout("script", "download")) :
       /\ dlResp' = r
       /\ IF r.kind = "hang"
         THEN /\ Hung
              /\ UNCHANGED saved
         ELSE IF r.kind = "transport"
         THEN /\ Fail(Error("ConnectionError", "requests.request raised"))
              /\ UNCHANGED saved
         ELSE IF resumed
         THEN \* script_dir (line 169) is assigned only in the creation branch
              /\ Fail(Error("NameError", "script_dir is not defined"))
              /\ UNCHANGED saved
         ELSE /\ saved' = WrittenBytes(r)
              /\ pc' = "exit"
              /\ exitCode' = 0
              /\ UNCHANGED err
    /\ UNCHANGED <<impl, resumed, env, synthReq, chatVars, ttsText, scenario,
                   seen, max_attempts, attempts, task_id,
                   file_id, lastResp, queries, sleeps, pollOutcome, createReq,
                   created>>

----------------------------------------------------------------------------
(* Tracing: run_local_experiment.py main, and the two log_to_langfuse *)

\* what lf.start_observation does: returns a span, returns None, or raises
SpanOutcomes == {"span", "none", "raise"}

\* the record appended for an item
ItemRecord(scoreError, logged) == [score_error |-> scoreError, logged |-> logged]

\* an uncaught exception ends main
Abort(e) ==
    /\ trPc' = "aborted"
    /\ trErr' = e
    /\ UNCHANGED <<trN, trIdx, trSpan, trScoreErr, trItems, trWritten>>

\* lines 78-84: lf = get_client(); a failure is re-raised as SystemExit
ExpGetClient ==
    /\ impl = "experiment" /\ trPc = "begin"
    /\ \E raises \in BOOLEAN :
         IF raises
         THEN /\ Abort("SystemExit")
              /\ trRaised' = trRaised \cup {"get_client"}
         ELSE /\ trPc' = "start"
              /\ UNCHANGED <<trN, trIdx, trSpan, trScoreErr, trItems,
                             trWritten, trRaised, trErr>>
    /\ UNCHANGED <<impl, exceptTrace>>

\* lines 87-95: start_observation in a try, its fallback call outside any try
ExpStartObservation ==
    /\ impl = "experiment" /\ trPc = "start"
    /\ \E first \in SpanOutcomes :
         IF first # "raise"
         THEN /\ trSpan' = first
              /\ trPc' = "update"
              /\ UNCHANGED <<trN, trIdx, trScoreErr, trItems, trWritten,
                             trRaised, trErr>>
         ELSE \E fallback \in SpanOutcomes :
                /\ trRaised' = trRaised \cup {"start_observation"}
                /\ IF fallback = "raise"
                   THEN Abort("Exception")
                   ELSE /\ trSpan' = fallback
                        /\ trPc' = "update"
                        /\ UNCHANGED <<trN, trIdx, trScoreErr, trItems,
                                       trWritten, trErr>>
    /\ UNCHANGED <<impl, exceptTrace>>

\* lines 97-108: span.update(output=...), retried once with input, both in try
ExpUpdate ==
    /\ impl = "experiment" /\ trPc = "update"
    /\ trPc' = "score"
    /\ IF trSpan = "none"
       THEN UNCHANGED trRaised
       ELSE \E raises \in BOOLEAN :
              trRaised' = IF raises THEN trRaised \cup {"update"} ELSE trRaised
    /\ UNCHANGED <<trN, trIdx, trSpan, trScoreErr, trItems, trWritten, trErr>>
    /\ UNCHANGED <<impl, exceptTrace>>

\* lines 110-132: lf.create_score in a try; a failure is kept as score_error
ExpCreateScore ==
    /\ impl = "experiment" /\ trPc = "score"
    /\ trPc' = "end"
    /\ \E raises \in BOOLEAN :
         /\ trScoreErr' = raises
         /\ trRaised' = IF raises THEN trRaised \cup {"create_score"}
                        ELSE trRaised
    /\ UNCHANGED <<trN, trIdx, trSpan, trItems, trWritten, trErr>>
    /\ UNCHANGED <<impl, exceptTrace>>

\* lines 134-143: span.end() in a try (None.end() raises AttributeError),
\* then the item record is appended and the loop goes on
ExpEnd ==
    /\ impl = "experiment" /\ trPc = "end"
    /\ \E raises \in (IF trSpan = "none" THEN {TRUE} ELSE BOOLEAN) :
         trRaised' = IF raises THEN trRaised \cup {"end"} ELSE trRaised
    /\ trItems' = Append(trItems, ItemRecord(trScoreErr, FALSE))
    /\ trScoreErr' = FALSE
    /\ trSpan' = "unset"
    /\ IF trIdx = trN
       THEN trPc' = "flush" /\ UNCHANGED trIdx
       ELSE trPc' = "start" /\ trIdx' = trIdx + 1
    /\ UNCHANGED <<trN, trWritten, trErr>>
    /\ UNCHANGED <<impl, exceptTrace>>

\* lines 145-149: lf.flush() in a try
ExpFlush ==
    /\ impl = "experiment" /\ trPc = "flush"
    /\ trPc' = "write"
    /\ \E raises \in BOOLEAN :
         trRaised' = IF raises THEN trRaised \cup {"flush"} ELSE trRaised
    /\ UNCHANGED <<trN, trIdx, trSpan, trScoreErr, trItems, trWritten, trErr>>
    /\ UNCHANGED <<impl, exceptTrace>>

\* lines 151-156: the results file is written
ExpWrite ==
    /\ impl = "experiment" /\ trPc = "write"
    /\ trPc' = "done"
    /\ trWritten' = TRUE
    /\ UNCHANGED <<trN, trIdx, trSpan, trScoreErr, trItems, trRaised, trErr>>
    /\ UNCHANGED <<impl, exceptTrace>>

\* the tracing calls of a log_to_langfuse, in call order
LogCalls(prog) ==
    IF prog = "correct"
    THEN {"get_client", "start_observation", "set_attribute", "end"}
    ELSE {"get_client", "start_observation", "start_observation_fallback",
          "end"}

\* the calls that are reached and raise, when the calls of `fails` would raise
LogRaised(prog, fails) ==
    IF "get_client" \in fails THEN {"get_client"}
    ELSE IF prog = "correct"
    THEN IF "start_observation" \in fails THEN {"start_observation"}
         ELSE fails \cap {"set_attribute", "end"}
    ELSE IF {"start_observation", "start_observation_fallback"} \subseteq fails
    THEN {"start_observation"}
    ELSE fails \cap {"start_observation", "end"}

\* log_to_langfuse reaches its print("Logged to Langfuse:")
LogPrinted(prog, fails) == LogRaised(prog, fails) \subseteq
                              {"set_attribute"} \cup
                              (IF prog = "send" THEN {"start_observation"} ELSE {})

\* the item loop after a log_to_langfuse call has returned
LogReturns(logged) ==
    /\ trItems' = Append(trItems, ItemRecord(FALSE, logged))
    /\ IF trIdx = trN
       THEN trPc' = "done" /\ trWritten' = TRUE /\ UNCHANGED trIdx
       ELSE trPc' = "begin" /\ trIdx' = trIdx + 1 /\ UNCHANGED trWritten
    /\ UNCHANGED <<trN, trSpan, trScoreErr, trErr>>

\* process_cantonese_transcribe_and_correct.py log_to_langfuse (135-151):
\* skipped without a client, otherwise every call is inside the outer try
\* and set_attribute inside its own
CorrectLog ==
    /\ impl = "correct" /\ trPc = "begin"
    /\ \E skip \in BOOLEAN, fails \in SUBSET LogCalls("correct") :
         IF skip
         THEN fails = {} /\ LogReturns(FALSE) /\ UNCHANGED trRaised
         ELSE /\ trRaised' = trRaised \cup LogRaised("correct", fails)
              /\ LogReturns(LogPrinted("correct", fails))
    /\ UNCHANGED <<impl, exceptTrace>>

\* send_transcripts_langfuse.py log_to_langfuse (35-56) as called from main
\* (195-217): the fallback start_observation is inside the outer try
SendLog ==
    /\ impl = "send" /\ trPc = "begin"
    /\ \E skip \in BOOLEAN, fails \in SUBSET LogCalls("send") :
         IF skip
         THEN fails = {} /\ LogReturns(FALSE) /\ UNCHANGED trRaised
         ELSE /\ trRaised' = trRaised \cup LogRaised("send", fails)
              /\ LogReturns(LogPrinted("send", fails))
    /\ UNCHANGED <<impl, exceptTrace>>

----------------------------------------------------------------------------
(* transcribe_segment (qwen_audio_processor.py) *)

max_retries == 4

sRefused == <<"r","e","f","u","s","e","d">>
sTimedOut == <<"t","i","m","e","d">>
sIndexError == <<"l","i","s","t"," ","i","n","d","e","x">>
sHello == <<"h","i">>
sRepr == <<"{","}">>

\* what Client(gradio_url) does: returns, or raises with a message
ClientOutcomes == {[kind |-> "ok", msg |-> <<>>],
                   [kind |-> "raise", msg |-> sRefused]}

\* what client.predict does: raises, or returns a list, a dict or a string
PredictOutcomes ==
    {[kind |-> "raise", msg |-> sTimedOut, items |-> <<>>,
      text |-> PyNone, result |-> PyNone]}
    \cup {[kind |-> "list", msg |-> <<>>, items |-> it,
           text |-> PyNone, result |-> PyNone] :
             it \in {<<>>, <<PyStr(sHello)>>, <<PyStr(<<>>), PyStr(sHello)>>}}
    \cup {[kind |-> "dict", msg |-> <<>>, items |-> <<>>,
           text |-> t, result |-> r] :
             t \in {PyNone, PyStr(<<>>), PyStr(sHello)},
             r \in {PyNone, PyStr(sF9)}}
    \cup {[kind |-> "str", msg |-> <<>>, items |-> <<>>,
           text |-> PyStr(sHello), result |-> PyNone]}

\* lines 79-84: the text of a result; result[0] of an empty list raises
ExtractRaises(r) == r.kind = "list" /\ r.items = <<>>

ExtractText(r) ==
    IF r.kind = "list" THEN r.items[1]
    ELSE IF r.kind = "dict" THEN PyOr(PyOr(r.text, r.result), PyStr(sRepr))
    ELSE r.text

\* the pair returned when the last attempt failed
ErrorReturn(m) == [text |-> PyStr(<<>>), raw |-> [kind |-> "error", msg |-> m]]

\* variant: the backoff grows linearly
ClientWaitLinear(k) == IF 2 * k < 10 THEN 2 * k ELSE 10

\* the backoff after the k-th failed attempt
ClientWait(k) == IF 2 ^ k < 10 THEN 2 ^ k ELSE 10

PredictWait(k) == IF 2 ^ k < 30 THEN 2 ^ k ELSE 30

\* a failed attempt is the last one
LastAttempt(k) == k = max_retries

\* lines 62-70: one Client(...) attempt
TsClientInit ==
    /\ impl = "transcribe" /\ tsPc = "client"
    /\ tsClientCalls' = tsClientCalls + 1
    /\ \E o \in ClientOutcomes :
         IF o.kind = "ok"
         THEN /\ tsPc' = "predict"
              /\ tsAttempt' = 1
              /\ UNCHANGED tsRet
         ELSE IF LastAttempt(tsAttempt)
         THEN /\ tsPc' = "done"
              /\ tsRet' = ErrorReturn(o.msg)
              /\ UNCHANGED tsAttempt
         ELSE /\ tsPc' = "clientWait"
              /\ UNCHANGED <<tsAttempt, tsRet>>
    /\ UNCHANGED <<tsPredictCalls, tsReturned, tsWaits>>
    /\ UNCHANGED <<impl, exceptRetry>>

\* lines 71-72: time.sleep(min(10, 2 ** attempt)), then the next attempt
TsClientWait ==
    /\ impl = "transcribe" /\ tsPc = "clientWait"
    /\ tsWaits' = Append(tsWaits, ClientWait(tsAttempt))
    /\ tsAttempt' = tsAttempt + 1
    /\ tsPc' = "client"
    /\ UNCHANGED <<tsClientCalls, tsPredictCalls, tsReturned, tsRet>>
    /\ UNCHANGED <<impl, exceptRetry>>

\* lines 73-90: one client.predict attempt and the extraction of its text
TsPredict ==
    /\ impl = "transcribe" /\ tsPc = "predict"
    /\ tsPredictCalls' = tsPredictCalls + 1
    /\ \E o \in PredictOutcomes :
         /\ tsReturned' = IF o.kind = "raise" THEN tsReturned
                          ELSE tsReturned + 1
         /\ IF o.kind # "raise" /\ ~ExtractRaises(o)
            THEN /\ tsPc' = "done"
                 /\ tsRet' = [text |-> ExtractText(o),
                              raw |-> [kind |-> o.kind, msg |-> <<>>]]
            ELSE IF LastAttempt(tsAttempt)
            THEN /\ tsPc' = "done"
                 /\ tsRet' = ErrorReturn(IF o.kind = "raise" THEN o.msg
                                         ELSE sIndexError)
            ELSE /\ tsPc' = "predictWait"
                 /\ UNCHANGED tsRet
    /\ UNCHANGED <<tsAttempt, tsClientCalls, tsWaits>>
    /\ UNCHANGED <<impl, exceptRetry>>

\* lines 91-94: time.sleep(min(30, 2 ** attempt)), then the next attempt
TsPredictWait ==
    /\ impl = "transcribe" /\ tsPc = "predictWait"
    /\ tsWaits' = Append(tsWaits, PredictWait(tsAttempt))
    /\ tsAttempt' = tsAttempt + 1
    /\ tsPc' = "predict"
    /\ UNCHANGED <<tsClientCalls, tsPredictCalls, tsReturned, tsRet>>
    /\ UNCHANGED <<impl, exceptRetry>>

----------------------------------------------------------------------------
(* The batch loop of process_cantonese_transcribe_and_correct.py *)

\* Python's seq[lo:hi]: a negative bound counts from the end, and both
\* bounds are clamped to 0..len(seq)
SliceBound(i, n) ==
    IF i < 0 THEN (IF i + n < 0 THEN 0 ELSE i + n)
    ELSE IF i > n THEN n ELSE i

PySlice(seq, lo, hi) ==
    SubSeq(seq, SliceBound(lo, Len(seq)) + 1, SliceBound(hi, Len(seq)))

\* lines 211-213 (send_transcripts_langfuse.py:116-118 is the same code):
\* start_idx = max(1, s); end_idx = e if e is not None else len(files)
SliceFiles(files, s, e) ==
    LET start_idx == IF s.n > 1 THEN s.n ELSE 1
        end_idx == IF e # PyNone THEN e.n ELSE Len(files)
    IN PySlice(files, start_idx - 1, end_idx)

\* lines 206-213: the mp3 list is read and sliced; an empty list returns
BatchSlice ==
    /\ impl = "batch" /\ baPc = "args"
    /\ IF baFiles = <<>>
       THEN baPc' = "done" /\ UNCHANGED baSlice
       ELSE /\ baSlice' = SliceFiles(baFiles, baStart, baEnd)
            /\ baPc' = IF SliceFiles(baFiles, baStart, baEnd) = <<>>
                       THEN "done" ELSE "file"
    /\ UNCHANGED <<baFiles, baStart, baEnd, baServer, baModels, baPos,
                   baModel, baTrans, baOut, baLog>>
    /\ UNCHANGED <<impl, exceptBatch>>

\* what transcribe_via_gradio and the write of the raw transcript do
TranscribeOutcomes == {"raise", "blank", "text"}

\* variant: the transcript is not looked at
SkipCorrectionIgnoresTranscript(server, models, trans) ==
    ~server \/ models = 0

\* line 242: not server_url or not models or not transcript.strip()
SkipCorrection(server, models, trans) ==
    ~server \/ models = 0 \/ trans \in {"raise", "blank"}

\* the loop is done with the current file
BatchFileDone(trans, outputs) ==
    /\ baLog' = Append(baLog, [file |-> baSlice[baPos], trans |-> trans,
                               outputs |-> outputs])
    /\ baOut' = <<>>
    /\ baModel' = 1
    /\ IF baPos = Len(baSlice)
       THEN baPc' = "done" /\ UNCHANGED baPos
       ELSE baPc' = "file" /\ baPos' = baPos + 1

\* lines 221-244: transcription in a try; on an exception transcript = ""
BatchTranscribe ==
    /\ impl = "batch" /\ baPc = "file"
    /\ \E o \in TranscribeOutcomes :
         /\ baTrans' = o
         /\ IF SkipCorrection(baServer, baModels, o)
            THEN BatchFileDone(o, <<>>)
            ELSE /\ baPc' = "models"
                 /\ UNCHANGED <<baPos, baModel, baOut, baLog>>
    /\ UNCHANGED <<baFiles, baStart, baEnd, baServer, baModels, baSlice>>
    /\ UNCHANGED <<impl, exceptBatch>>

\* what call_model_correction does: requests.post raises (line 119, outside
\* its try), the answer is an HTTP error or not JSON, or a reply comes back
CorrectionOutcomes == {"raise", "badanswer", "reply"}

\* lines 121-132 and 248-252: the text that is written for a model
CorrectedText(o) ==
    IF o = "raise" THEN "<ERROR: e>"
    ELSE IF o = "badanswer" THEN "<ERROR: e - text>"
    ELSE "corrected"

\* lines 247-271: one model; the result file is written in every case
BatchCorrect ==
    /\ impl = "batch" /\ baPc = "models"
    /\ \E o \in CorrectionOutcomes :
         LET outputs == Append(baOut, [model |-> baModel, outcome |-> o,
                                       text |-> CorrectedText(o)])
         IN IF baModel = baModels
            THEN BatchFileDone(baTrans, outputs) /\ UNCHANGED baTrans
            ELSE /\ baOut' = outputs
                 /\ baModel' = baModel + 1
                 /\ UNCHANGED <<baPc, baPos, baTrans, baLog>>
    /\ UNCHANGED <<baFiles, baStart, baEnd, baServer, baModels, baSlice>>
    /\ UNCHANGED <<impl, exceptBatch>>

----------------------------------------------------------------------------
(* Refinement and comparison in main of qwen_audio_processor.py *)

\* str.strip() for blanks
RECURSIVE StripLeft(_)
StripLeft(str) ==
    IF str # <<>> /\ Head(str) = " " THEN StripLeft(Tail(str)) ELSE str

RECURSIVE StripRight(_)
StripRight(str) ==
    IF str # <<>> /\ str[Len(str)] = " "
    THEN StripRight(SubSeq(str, 1, Len(str) - 1)) ELSE str

Strip(str) == StripRight(StripLeft(str))

\* re.sub(r"[\s]+", " ", text): runs of blanks become one blank
RECURSIVE CollapseBlanks(_)
CollapseBlanks(str) ==
    IF Len(str) < 2 THEN str
    ELSE IF str[1] = " " /\ str[2] = " " THEN CollapseBlanks(Tail(str))
    ELSE <<Head(str)>> \o CollapseBlanks(Tail(str))

sPrevious == <<"p">>
sRefined == <<"r">>
sRefineError == <<"Error during refinement: ", "e">>

\* what the refinement server does: the request raises, or a text comes back
RefineReplies == {"raise", "text", "empty"}

\* lines 131-152: the pair's first component returned by refine_with_qwen
RefinedOf(answer) ==
    IF answer = "raise" THEN PyStr(sRefineError)
    ELSE IF answer = "text" THEN PyStr(sRefined)
    ELSE PyStr(<<>>)

\* variant: the true script is sent when there is one
RefineInputPrefersTrue(transcript, true) ==
    IF Truthy(true) THEN true.s ELSE transcript

\* line 473: the text given to refine_with_qwen
RefineInput(transcript, true) == transcript

\* lines 117-127: the request of refine_with_qwen
RefineRequest(text) == [to |-> "refine", user |-> <<"[TRANSCRIPT]\n">> \o text]

\* lines 175-188: the request of compare_scripts
CompareRequest(true, refined) ==
    [to |-> "compare",
     user |-> <<"TRUE:\n">> \o true \o <<"\n\nREFINED:\n">> \o refined]

\* lines 471-504 for one run
RefineOne(run, true, answer) ==
    IF Strip(rfTranscript) # <<>>
    THEN [pc |-> "save", refined |-> RefinedOf(answer),
          sent |-> Append(run.sent,
                          RefineRequest(RefineInput(rfTranscript, true)))]
    ELSE [pc |-> "save",
          refined |-> IF rfPrev THEN PyStr(sPrevious)
                      ELSE IF Truthy(true) THEN PyStr(CollapseBlanks(true.s))
                      ELSE PyNone,
          sent |-> run.sent]

\* lines 506-520 for one run: f.write(None) raises TypeError
SaveOne(run) ==
    IF run.refined = PyNone THEN [run EXCEPT !.pc = "aborted"]
    ELSE [run EXCEPT !.pc = "compare"]

\* lines 522-568 for one run
CompareOne(run, true) ==
    IF true.t = "str" /\ Strip(true.s) # <<>> /\ Truthy(run.refined)
    THEN [run EXCEPT !.pc = "done",
                     !.sent = Append(run.sent,
                                     CompareRequest(true.s, run.refined.s))]
    ELSE [run EXCEPT !.pc = "done"]

\* step 3 of main, in both runs, with the same answer of the server
RfRefine ==
    /\ impl = "refine"
    /\ \A k \in 1..2 : rfRuns[k].pc = "refine"
    /\ \E answer \in RefineReplies :
         rfRuns' = [k \in 1..2 |-> RefineOne(rfRuns[k], rfTrue[k], answer)]
    /\ UNCHANGED <<rfTranscript, rfPrev, rfTrue>>
    /\ UNCHANGED <<impl, exceptRefine>>

\* step 4 of main, in both runs
RfSave ==
    /\ impl = "refine"
    /\ \A k \in 1..2 : rfRuns[k].pc = "save"
    /\ rfRuns' = [k \in 1..2 |-> SaveOne(rfRuns[k])]
    /\ UNCHANGED <<rfTranscript, rfPrev, rfTrue>>
    /\ UNCHANGED <<impl, exceptRefine>>

\* step 5 of main, in the runs that got there
RfCompare ==
    /\ impl = "refine"
    /\ \E k \in 1..2 : rfRuns[k].pc = "compare"
    /\ rfRuns' = [k \in 1..2 |->
                    IF rfRuns[k].pc = "compare"
                    THEN CompareOne(rfRuns[k], rfTrue[k]) ELSE rfRuns[k]]
    /\ UNCHANGED <<rfTranscript, rfPrev, rfTrue>>
    /\ UNCHANGED <<impl, exceptRefine>>

----------------------------------------------------------------------------
(* The chat step of ai_minimax_tts_cli.py *)

sHi == <<"h","i">>
sOk == <<"o","k">>
sRaw == <<"[","]">>

\* sys.argv[1:] joined with blanks, or the line read by input()
Questions == {<<>>, <<" ">>, sHi}

\* the server is not reachable, or does not answer within the timeout
ChatTransport == [kind |-> "transport", code |-> 0, shape |-> "none",
                  value |-> PyNone, text |-> <<>>]

\* the POST never returns
ChatHang == [kind |-> "hang", code |-> 0, shape |-> "none",
             value |-> PyNone, text |-> <<>>]

\* an HTTP answer of the chat server: shape is what resp.json() gives,
\*   "badjson"  the body is not JSON
\*   "message"  {"choices": [{"message": {"content": value}}]}
\*   "legacy"   {"choices": [{"text": value}]}
\*   "nochoice" {"choices": []}
\*   "reply"    {"reply": value}
\*   "other"    anything else (a list, a dict without choices and reply)
ChatAnswer(code, shape, value, text) ==
    [kind |-> "http", code |-> code, shape |-> shape, value |-> value,
     text |-> text]

\* what the chat POST produces in the runs explored (one answer of each way
\* out of query_server: exception, content of the first choice, raw text)
ChatResponses ==
    {ChatTransport,
     ChatAnswer(500, "badjson", PyNone, <<>>),
     ChatAnswer(200, "message", PyStr(sOk), sRaw),
     ChatAnswer(200, "nochoice", PyNone, sRaw),
     ChatAnswer(200, "other", PyNone, sRaw)}

\* str(e) of the exception caught in query_server
ExceptionText(r) ==
    IF r.kind = "transport" THEN <<"c","o","n","n">>
    ELSE IF RaisesForStatus(r.code) THEN <<"h","t","t","p">>
    ELSE IF r.shape = "badjson" THEN <<"j","s","o","n">>
    ELSE <<"i","n","d","e","x">>

sErrorQuerying ==
    <<"<","E","R","R","O","R"," ","q","u","e","r","y","i","n","g"," ",
      "A","I",":"," ">>

\* variant: the error is returned as an empty reply
ChatErrorReplyEmpty(msg) == PyStr(<<>>)

\* f"<ERROR querying AI: {e}>"
ChatErrorReply(msg) == PyStr(sErrorQuerying \o msg \o <<">">>)

\* the try block of query_server: what it returns for an answer of the server
QueryServer(r) ==
    IF r.kind = "transport" \/ RaisesForStatus(r.code)
       \/ r.shape \in {"badjson", "nochoice"}
    THEN ChatErrorReply(ExceptionText(r))
    ELSE IF r.shape \in {"message", "legacy", "reply"} THEN r.value
    ELSE PyStr(r.text)

\* main: the question is taken from the arguments or read from the terminal;
\* a blank one ends the run with sys.exit(0)
CliQuestion ==
    /\ UNCHANGED exceptTts
    /\ impl = "cli" /\ pc = "question"
    /\ \E q \in Questions :
         /\ question' = PyStr(q)
         /\ IF Strip(q) = <<>>
            THEN pc' = "exit" /\ exitCode' = 0
            ELSE pc' = "chat" /\ UNCHANGED exitCode
    /\ UNCHANGED <<impl, resumed, env, synthReq, scenario, dlResp, seen,
                   max_attempts, attempts, task_id, file_id, lastResp,
                   queries, sleeps, pollOutcome, err, createReq, created,
                   downloads, fetched, saved, chatReq, chatResp, reply,
                   ttsText>>

\* reply = query_server(question): every exception is turned into a reply
CliChat ==
    /\ UNCHANGED exceptTts
    /\ impl = "cli" /\ pc = "chat"
    /\ chatReq' = chatReq + 1
    /\ \E r \in Outcomes(ChatResponses, ChatHang,
                        RequestTimeout("cli", "chat")) :
         /\ chatResp' = r
         /\ IF r.kind = "hang"
            THEN Hung /\ UNCHANGED reply
            ELSE /\ reply' = QueryServer(r)
                 /\ pc' = "create"
                 /\ UNCHANGED <<err, exitCode>>
    /\ UNCHANGED <<impl, resumed, env, synthReq, scenario, dlResp, seen,
                   max_attempts, attempts, task_id, file_id, lastResp,
                   queries, sleeps, pollOutcome, createReq, created,
                   downloads, fetched, saved, question, ttsText>>

----------------------------------------------------------------------------
(* The two poll loops as functions of max_attempts and the answers *)

\* how a poll loop ended: queries issued, outcome, file_id returned
Ended(q, outcome, fid) == [queries |-> q, outcome |-> outcome, file_id |-> fid]

\* the answer to the i-th status query; the server goes on giving its last
\* answer
AnswerAt(answers, i) ==
    IF i <= Len(answers) THEN answers[i] ELSE answers[Len(answers)]

\* poll_minimax_task from its a-th completed attempt on
RECURSIVE CliPoll(_, _, _)
CliPoll(m, answers, a) ==
    IF ~CliLoopGuard(a, m) THEN Ended(a, "timeout", PyNone)
    ELSE LET data == ParsedBody(AnswerAt(answers, a + 1))
             status == EffectiveStatus(data) IN
         IF IsSuccess(status) /\ HasFileId(data)
         THEN Ended(a + 1, "success", data.file_id)
         ELSE IF ~IsSuccess(status) /\ CliIsFailure(status)
         THEN Ended(a + 1, "failed", PyNone)
         ELSE CliPoll(m, answers, a + 1)

\* the `while True` loop of minimax_poll.py from its a-th completed attempt on
RECURSIVE ScriptPoll(_, _, _)
ScriptPoll(m, answers, a) ==
    LET data == ParsedBody(AnswerAt(answers, a + 1))
        status == EffectiveStatus(data) IN
    IF IsSuccess(status) /\ HasFileId(data)
    THEN Ended(a + 1, "success", data.file_id)
    ELSE IF ~IsSuccess(status) /\ ScriptIsFailure(status)
    THEN Ended(a + 1, "failed", PyNone)
    ELSE IF ScriptExhausted(a + 1, m) THEN Ended(a + 1, "timeout", PyNone)
    ELSE ScriptPoll(m, answers, a + 1)

\* both loops are run on the same max_attempts and answers
PairPoll ==
    /\ impl = "pollpair"
    /\ eqCli = NotPolled /\ eqScript = NotPolled
    /\ eqCli' = CliPoll(eqMax, eqAnswers, 0)
    /\ eqScript' = ScriptPoll(eqMax, eqAnswers, 0)
    /\ UNCHANGED <<eqMax, eqAnswers>>
    /\ UNCHANGED <<impl, exceptPair>>

----------------------------------------------------------------------------

Next ==
    \/ CliStart
    \/ ScriptStart
    \/ VoiceStart
    \/ VoiceGenerate
    \/ CliQuestion
    \/ CliChat
    \/ CliCreate
    \/ ScriptCreate
    \/ CliPollIter
    \/ CliSleep
    \/ CliPollTimeout
    \/ ScriptPollIter
    \/ ScriptSleep
    \/ CliDownload
    \/ ScriptDownload
    \/ ExpGetClient
    \/ ExpStartObservation
    \/ ExpUpdate
    \/ ExpCreateScore
    \/ ExpEnd
    \/ ExpFlush
    \/ ExpWrite
    \/ CorrectLog
    \/ SendLog
    \/ TsClientInit
    \/ TsClientWait
    \/ TsPredict
    \/ TsPredictWait
    \/ BatchSlice
    \/ BatchTranscribe
    \/ BatchCorrect
    \/ RfRefine
    \/ RfSave
    \/ RfCompare
    \/ PairPoll

Spec == Init /\ [][Next]_vars

TypeOK ==
    /\ impl \in Programs
    /\ pc \in {"start", "question", "chat", "create", "poll", "sleep",
             "download", "synth", "hung",
             "exit"}
    /\ scenario \in -1..3
    /\ attempts \in 0..(MaxAttempts + 1)
    /\ pollOutcome \in {"none", "success", "failed", "timeout", "exception"}
    /\ seen \subseteq {"transport", "answered", "ambiguous", "failure",
                        "miscased", "plain"}
    /\ trPc \in {"begin", "start", "update", "score", "end", "flush", "write",
                 "done", "aborted"}
    /\ trN \in 0..MaxItems /\ trIdx \in 1..MaxItems
    /\ trSpan \in {"unset", "span", "none"}
    /\ trScoreErr \in BOOLEAN /\ trWritten \in BOOLEAN
    /\ Len(trItems) <= MaxItems
    /\ trRaised \subseteq {"get_client", "start_observation", "update",
                            "set_attribute", "create_score", "end", "flush"}
    /\ trErr \in {"", "SystemExit", "Exception"}
    /\ tsPc \in {"client", "clientWait", "predict", "predictWait", "done"}
    /\ tsAttempt \in 1..max_retries
    /\ tsClientCalls \in 0..max_retries /\ tsPredictCalls \in 0..max_retries
    /\ tsReturned \in 0..max_retries
    /\ Len(tsWaits) <= 2 * (max_retries - 1)
    /\ baPc \in {"args", "file", "models", "done"}
    /\ Len(baFiles) <= MaxFiles /\ Len(baSlice) <= Len(baFiles)
    /\ baPos \in 1..(MaxFiles + 1) /\ baModel \in 1..(MaxModels + 1)
    /\ baTrans \in {"none"} \cup TranscribeOutcomes
    /\ Len(baOut) <= MaxModels /\ Len(baLog) <= Len(baSlice)
    /\ question \in {PyNone} \cup {PyStr(q) : q \in Questions}
    /\ chatReq \in 0..1
    /\ chatResp \in {NoChat} \cup ChatResponses
    /\ reply \in {PyNone} \cup {QueryServer(r) : r \in ChatResponses}
    /\ ttsText \in {PyNone, reply}
    /\ eqMax \in 0..MaxPairAttempts
    /\ eqCli.queries \in 0..MaxPairAttempts
    /\ eqScript.queries \in 0..MaxPairAttempts
    /\ eqCli.outcome \in {"none", "success", "failed", "timeout"}
    /\ eqScript.outcome \in {"none", "success", "failed", "timeout"}
    /\ rfTranscript \in Transcripts /\ rfPrev \in BOOLEAN
    /\ rfTrue \in TrueScripts \X TrueScripts
    /\ \A k \in 1..2 :
         /\ rfRuns[k].pc \in {"refine", "save", "compare", "done", "aborted"}
         /\ Len(rfRuns[k].sent) <= 2

----------------------------------------------------------------------------
(* Properties *)

\* a status query was issued in this step
Queried == queries' = queries + 1

\* an answer that is neither success with a reference nor a failure
StillRunning(r) ==
    r.kind \in {"json", "badjson"} /\ ~SuccessWithRef(r) /\ ~FailedAnyCase(r)

\* C1: when the poll reads an answer with status Success and a result
\* reference X it returns exactly X (the run moves on to the download of X),
\* and once it has returned no further status query is issued.
C1_SuccessReturnsReference ==
    [][ /\ (Queried /\ SuccessWithRef(lastResp')) =>
              /\ pollOutcome' = "success"
              /\ file_id' = lastResp'.file_id
              /\ pc' = "download"
        /\ (pollOutcome = "success" => queries' = queries /\ file_id' = file_id)
      ]_vars

C1_Witness ==
    /\ pollOutcome = "success" /\ file_id = PyStr(sF7) /\ queries = 3
    /\ pc = "exit" /\ exitCode = 0 /\ downloads = 1 /\ fetched = PyStr(sF7)

C3_ExactlyNQueries ==
    [][ /\ queries' <= max_attempts
        /\ (pollOutcome' = "timeout" =>
               queries' = max_attempts /\ pc' = "exit" /\ exitCode' = 1)
        /\ (Queried /\ StillRunning(lastResp') /\ queries' < max_attempts =>
               pollOutcome' = "none" /\ pc' = "sleep")
        /\ (Queried /\ StillRunning(lastResp') /\ queries' = max_attempts =>
               \/ pollOutcome' = "timeout"
               \/ impl = "cli" /\ pollOutcome' = "none" /\ pc' = "sleep")
        /\ (pc = "poll" /\ queries = max_attempts =>
               pollOutcome' = "timeout" /\ queries' = queries)
      ]_vars

C3_Witness ==
    /\ pollOutcome = "timeout" /\ max_attempts = 3 /\ queries = 3
    /\ lastResp.status = PyStr(sProcessing) /\ pc = "exit"

\* C4: an answer with status Success but no result reference is neither
\* success nor failure: within the attempt bound the poll goes on to the
\* next query, and a poll that met such answers returns only at an answer
\* with status Success and a reference present.
C4_AmbiguousContinues ==
    [][ /\ (Queried /\ SuccessNoRef(lastResp')) =>
              /\ pollOutcome' \in {"none", "timeout"}
              /\ file_id' = PyNone
              /\ (queries' < max_attempts =>
                     pollOutcome' = "none" /\ pc' = "sleep")
        /\ ("ambiguous" \in seen' /\ pollOutcome' = "success" =>
               ~Absent(lastResp'.file_id) /\ file_id' = lastResp'.file_id)
      ]_vars

C4_Witness ==
    /\ "ambiguous" \in seen /\ pollOutcome = "success"
    /\ file_id = PyStr(sF9) /\ queries = 3

\* C5 (as claimed): if every status query raises a transport exception and
\* max_attempts = 5, the run ends with the poll timeout after exactly 5
\* queries and the transport exception is not what ends it.
C5_TransportOnlyTimesOut ==
    (max_attempts = 5 /\ seen = {"transport"} /\ pc = "exit") =>
        /\ pollOutcome = "timeout"
        /\ queries = 5
        /\ err.type # "ConnectionError"

\* C6 (as claimed): a status query that raises a transport exception does
\* not end the poll: it counts as one attempt and polling continues.
C6_TransportIsAbsorbed ==
    (lastResp.kind = "transport" /\ queries < max_attempts) =>
        /\ attempts = queries
        /\ pollOutcome = "none"
        /\ pc \in {"sleep", "poll"}

\* C7: the poll reports success (and a download is attempted) only if the
\* last answer it read had status Success and a non-empty result reference,
\* which is the reference it returns.
C7_SuccessOnlyWithReference ==
    (pollOutcome = "success" \/ pc = "download" \/ downloads > 0
        \/ file_id # PyNone) =>
        /\ SuccessWithRef(lastResp)
        /\ file_id = lastResp.file_id

C7_Witness ==
    /\ pollOutcome = "success" /\ impl = "cli" /\ queries = 2
    /\ Absent(lastResp.status) /\ lastResp.task_status = PyStr(sSuccess)
    /\ lastResp.file_id = PyStr(sF9)

\* C8 (as claimed): an answer whose status is failed or error in any casing
\* is a terminal job failure in both programs.
C8_FailureAnyCasing ==
    FailedAnyCase(lastResp) => pollOutcome = "failed" /\ pc = "exit"

\* the run ended in job creation
SubmitFailed == pc = "exit" /\ pollOutcome = "none" /\ downloads = 0

\* the identifier the service returned, under task_id or else under taskId
IssuedId(c) == IF Absent(c.task_id) \/ c.task_id = PyInt(0) THEN c.taskId
               ELSE c.task_id

RECURSIVE DigitsOf(_)
\* the decimal digits of a natural number
DigitsOf(k) ==
    IF k < 10 THEN <<Digits[k + 1]>>
    ELSE Append(DigitsOf(k \div 10), Digits[(k % 10) + 1])

\* an identifier as it is written into the status URL
IdText(v) == IF v.t = "int" THEN DigitsOf(v.n) ELSE v.s

\* C9 (as claimed): when the job-creation response carries a task identifier
\* under task_id or taskId, submit does not fail and the handle is exactly
\* that identifier (compared as written, so that 42 and "42" agree).
C9_SubmitReturnsIdentifier ==
    (createReq = 1 /\ created.code = 200 /\ IssuedId(created) # PyNone) =>
        /\ ~SubmitFailed
        /\ IdText(task_id) = IdText(IssuedId(created))

\* C10: when the job-creation request returns an HTTP error status, the run
\* ends in submit with an error carrying the status code and the response
\* body, and no status query (and no download) is ever issued.
C10_RejectedSubmit ==
    (createReq = 1 /\ created.code >= 400) =>
        /\ pc = "exit" /\ exitCode = 1
        /\ err.type \in {"RuntimeError", "SystemExit"}
        /\ err.code = created.code /\ err.text = created.text
        /\ queries = 0 /\ downloads = 0 /\ pollOutcome = "none"

C10_Witness ==
    /\ createReq = 1 /\ created.code = 400 /\ created.text = ErrorBody
    /\ pc = "exit" /\ err.code = 400 /\ err.text = ErrorBody /\ queries = 0

\* no usable identifier under a key: absent, None, "" or 0
NoIdentifier(v) == Absent(v) \/ v = PyInt(0)

\* C11: a job-creation response that parses as JSON but carries no non-empty
\* task identifier (under task_id or taskId) ends the run in submit with an
\* error: no handle is produced and no status query or download is issued.
C11_NoIdentifierIsHardFailure ==
    (createReq = 1 /\ created.isJson /\ NoIdentifier(created.task_id)
        /\ NoIdentifier(created.taskId)) =>
        /\ SubmitFailed /\ exitCode = 1
        /\ err.type \in {"RuntimeError", "SystemExit"}
        /\ task_id = PyNone
        /\ queries = 0 /\ downloads = 0

C11_Witness ==
    /\ createReq = 1 /\ created.code = 200 /\ created.isJson
    /\ created.task_id = PyStr(<<>>) /\ created.taskId = PyNone
    /\ pc = "exit" /\ exitCode = 1 /\ queries = 0 /\ task_id = PyNone

\* C12: after submit returned task id 42 and the status answers were
\* Processing, Processing, Success with file_id f9, the poll has made exactly
\* these 3 queries and returned f9; the download is one GET for f9, and the
\* bytes saved are the bytes of its response.
C12_DocumentedScenario ==
    (createReq = 1 /\ created.task_id = PyInt(42) /\ scenario = 3) =>
        /\ queries = 3 /\ pollOutcome = "success" /\ file_id = PyStr(sF9)
        /\ task_id = PyInt(42)
        /\ downloads <= 1
        /\ (downloads = 1 => fetched = PyStr(sF9))
        /\ (downloads = 1 /\ dlResp.kind = "http" /\ dlResp.code = 200 =>
               pc = "exit" /\ exitCode = 0 /\ saved = dlResp.content)

C12_Witness ==
    /\ createReq = 1 /\ created.task_id = PyInt(42) /\ scenario = 3
    /\ impl = "script" /\ queries = 3 /\ downloads = 1
    /\ dlResp.code = 200 /\ saved = AudioBytes /\ pc = "exit"

\* C13 (as claimed): when the download GET returns a non-success HTTP
\* status the run ends with an error and the error body is not saved.
C13_ErrorBodyNotSaved ==
    (downloads = 1 /\ dlResp.kind = "http" /\ dlResp.code >= 400) =>
        /\ pc = "exit" /\ exitCode = 1
        /\ saved = ""

\* the messages of the job-failed error
JobFailedMessages == {"Minimax task failed", "Task failed with status"}

\* C14 (as claimed): the poll ends with the timeout only when the attempt
\* bound is exhausted and no answer carried a terminal status (success with
\* a reference, or failed/error), and the timeout error is not the
\* job-failed error.
C14_TimeoutOnlyWithoutTerminal ==
    pollOutcome = "timeout" =>
        /\ queries = max_attempts
        /\ "failure" \notin seen
        /\ ~SuccessWithRef(lastResp)
        /\ err.msg \notin JobFailedMessages

\* C15 (as claimed): no request of the workflow waits without a bound.
C15_NoUnboundedWait == pc # "hung"

\* C16 (as claimed): started with --task-id the script creates no job, and
\* neither the failure path nor the download path needs a name that only
\* the skipped creation step assigns: a failed status ends in the script's
\* exit(1), a successful download is saved.
C16_ResumeCompletes ==
    resumed =>
        /\ createReq = 0
        /\ err.type # "NameError"
        /\ (pollOutcome = "failed" => exitCode = 1 /\ err.type = "SystemExit")
        /\ (downloads = 1 /\ dlResp.kind = "http" /\ dlResp.code = 200 =>
               pc = "exit" /\ exitCode = 0 /\ saved = dlResp.content)

\* a credential the program requires is unset or empty
MissingCredential == \E n \in DOMAIN env : Absent(env[n])

\* C17: when a required credential is missing the program reports it and
\* stops; no create, status, download or synthesis request is ever issued.
C17_FailFastOnMissingCredential ==
    MissingCredential =>
        /\ pc \in {"start", "exit"}
        /\ createReq = 0 /\ queries = 0 /\ downloads = 0 /\ synthReq = 0
        /\ (pc = "exit" =>
               err.msg # "" /\ err.type \in {"SystemExit", "Printed"})

C17_Witness ==
    /\ impl = "cli" /\ pc = "exit" /\ exitCode = 1
    /\ Absent(env["MINIMAX_API_KEY"]) /\ ~Absent(env["SERVER_IP"])
    /\ err.msg = "Error: MINIMAX_API_KEY not set" /\ createReq = 0

\* C19 (as claimed): one wait between consecutive status queries and none
\* after the last query of a run.
C19_WaitOnlyBetweenQueries ==
    /\ sleeps <= queries
    /\ (pc = "exit" /\ queries >= 1 => sleeps = queries - 1)

\* C18 (as claimed): whichever tracing calls raise, the workflow is not
\* aborted: every item is processed and the result is written.
C18_TracingNeverAborts ==
    impl \in TraceProgs =>
        /\ trPc # "aborted" /\ trErr = ""
        /\ (trPc = "done" => Len(trItems) = trN /\ trWritten)

\* C20 (as claimed): transcribe_segment makes at most 4 Client attempts and
\* at most 4 predict attempts; once a predict call has returned it returns
\* the text without a further call; when the 4th attempt of a phase fails
\* it returns ("", {"error": message}).
C20_RetryWithinBudget ==
    impl = "transcribe" =>
        /\ tsClientCalls <= 4 /\ tsPredictCalls <= 4
        /\ (tsReturned >= 1 =>
               /\ tsPc = "done" /\ tsReturned = 1
               /\ tsRet.raw.kind \notin {"none", "error"})
        /\ (tsPc = "done" /\ tsReturned = 0 =>
               /\ tsRet.text = PyStr(<<>>) /\ tsRet.raw.kind = "error"
               /\ 4 \in {tsClientCalls, tsPredictCalls})

\* the smaller of two numbers
Min2(a, b) == IF a < b THEN a ELSE b

\* the waits after the failed attempts 1..n under a capped exponential
Backoff(cap, n) == [k \in 1..n |-> Min2(cap, 2 ^ k)]

\* transcribe_segment is still constructing the client, or gave up doing so
InClientPhase == tsPc \in {"client", "clientWait"}
                    \/ (tsPc = "done" /\ tsPredictCalls = 0)

\* C21: the waits of transcribe_segment are min(10, 2^k) after the k-th
\* failed client construction and min(30, 2^k) after the k-th failed predict
\* (2, 4, 8 for k = 1..3), and the 4th failed attempt is followed by no wait.
C21_CappedExponentialBackoff ==
    impl = "transcribe" =>
        /\ tsWaits = IF InClientPhase
                     THEN Backoff(10, tsAttempt - 1)
                     ELSE Backoff(10, tsClientCalls - 1)
                              \o Backoff(30, tsAttempt - 1)
        /\ \A i \in 1..Len(tsWaits) : tsWaits[i] \in {2, 4, 8}
        /\ (tsPc = "done" /\ tsRet.raw.kind = "error" =>
               Len(tsWaits) = IF InClientPhase THEN 3 ELSE tsClientCalls + 2)

C21_Witness ==
    /\ impl = "transcribe" /\ tsPc = "done" /\ tsRet.raw.kind = "error"
    /\ tsClientCalls = 4 /\ tsPredictCalls = 4
    /\ tsWaits = <<2, 4, 8, 2, 4, 8>>

\* the files at the 1-based positions lo..hi of a list, in order
Positions(files, lo, hi) ==
    SelectSeq(files, LAMBDA f : lo <= f /\ f <= hi)

\* C22 (as claimed): for every file list and every s, e the loop is given
\* exactly the files at the 1-based positions max(1, s) .. e, in order (up
\* to the last file when e is omitted).
C22_IndexRangeInclusive ==
    (impl = "batch" /\ baPc # "args" /\ baFiles # <<>>) =>
        baSlice = Positions(baFiles,
                            IF baStart.n > 1 THEN baStart.n ELSE 1,
                            IF baEnd = PyNone THEN Len(baFiles) ELSE baEnd.n)

\* the record of a file in the history of the loop
Transcribed(rec) == rec.trans = "text"

\* C23: when the transcription of a file raises, no correction is made for
\* it and the loop goes on; when the correction with a model raises, an
\* error text is written for that model and the other models and files are
\* still processed: at the end every file of the slice has its record, and
\* a transcribed file has one result per model.
C23_FailureIsIsolated ==
    impl = "batch" =>
        /\ \A i \in 1..Len(baLog) :
             /\ baLog[i].file = baSlice[i]
             /\ (baLog[i].trans = "raise" => baLog[i].outputs = <<>>)
             /\ (Transcribed(baLog[i]) /\ baServer =>
                    Len(baLog[i].outputs) = baModels)
             /\ \A m \in 1..Len(baLog[i].outputs) :
                  /\ baLog[i].outputs[m].model = m
                  /\ baLog[i].outputs[m].text # ""
                  /\ (baLog[i].outputs[m].outcome = "raise" =>
                         baLog[i].outputs[m].text = "<ERROR: e>")
        /\ (baPc = "done" /\ baFiles # <<>> => Len(baLog) = Len(baSlice))

C23_Witness ==
    /\ impl = "batch" /\ baPc = "done" /\ Len(baLog) = 2
    /\ baLog[1].trans = "raise" /\ baLog[1].outputs = <<>>
    /\ Len(baLog[2].outputs) = 2
    /\ baLog[2].outputs[1].outcome = "raise"
    /\ baLog[2].outputs[2].outcome = "reply"

\* the refinement requests a run has sent
RefineRequests(run) == SelectSeq(run.sent, LAMBDA q : q.to = "refine")

\* C24: two runs that differ only in the true script send the same request
\* to the refinement model, or both send none; the request carries the
\* transcript, and the true script appears only in the comparison request.
C24_TrueScriptNotSentToRefinement ==
    impl = "refine" =>
        /\ RefineRequests(rfRuns[1]) = RefineRequests(rfRuns[2])
        /\ \A k \in 1..2 : \A i \in 1..Len(rfRuns[k].sent) :
             rfRuns[k].sent[i].to = "refine" =>
                 rfRuns[k].sent[i].user = <<"[TRANSCRIPT]\n">> \o rfTranscript

C24_Witness ==
    /\ impl = "refine"
    /\ rfTrue[1] = PyStr(<<"x">>) /\ rfTrue[2] = PyNone
    /\ rfRuns[1].pc = "done" /\ rfRuns[2].pc = "done"
    /\ Len(RefineRequests(rfRuns[1])) = 1
    /\ Len(rfRuns[1].sent) = 2 /\ Len(rfRuns[2].sent) = 1
    /\ rfRuns[1].sent[2].to = "compare"

\* C26: in every state of a polling program the attempt counter is the
\* number of status queries issued and lies in 0..max_attempts (so no query
\* is issued once the counter has reached max_attempts).
C26_AttemptsCountQueries ==
    impl \in {"cli", "script"} =>
        /\ attempts = queries
        /\ 0 <= attempts /\ attempts <= max_attempts

C26_Witness ==
    /\ impl = "script" /\ pollOutcome = "timeout" /\ pc = "exit"
    /\ max_attempts >= 3 /\ attempts = max_attempts /\ queries = max_attempts

\* C27: an answer whose status is "Success" in another casing, with a
\* file_id, is treated as still running; a job that only ever answers so
\* ends in the poll timeout after max_attempts queries, never in success.
C27_SuccessIsCaseSensitive ==
    /\ (MiscasedSuccess(lastResp) /\ pc # "hung") =>
           /\ pollOutcome \in {"none", "timeout"}
           /\ pc \in {"sleep", "poll", "exit"}
           /\ file_id = PyNone /\ downloads = 0
    /\ (seen = {"answered", "miscased"} /\ pc = "exit") =>
           /\ pollOutcome = "timeout" /\ queries = max_attempts
           /\ exitCode = 1

C27_Witness ==
    /\ seen = {"answered", "miscased"} /\ pc = "exit"
    /\ pollOutcome = "timeout" /\ queries = 3 /\ max_attempts = 3
    /\ lastResp.status = PyStr(Lower(sSuccess)) /\ lastResp.file_id = PyStr(sF9)

\* C25 (as claimed): on the same max_attempts and the same status
\* answers the two poll loops issue the same number of queries and end with
\* the same outcome (and the same file_id on success).
C25_PollLoopsEquivalent ==
    (impl = "pollpair" /\ eqCli # NotPolled) => eqCli = eqScript

\* the download request was refused or did not come through
DownloadRaised == dlResp.kind = "transport" \/ dlResp.code >= 400

\* C28: the steps of the chat-plus-TTS cli run in the order chat query, job
\* creation, polling, download, each at most once per run: a job is created
\* only after the chat query, a status query is issued only after creation
\* returned a task id, the download is requested only after polling returned
\* a file_id; a run in which creation, polling or download raised ends with
\* exit code 1 and none of the later steps, and nothing runs after the end.
C28_StepsInOrder ==
    /\ [](impl = "cli" =>
            /\ chatReq <= 1 /\ createReq <= 1 /\ downloads <= 1
            /\ (createReq >= 1 => chatReq = 1)
            /\ (queries >= 1 =>
                   createReq = 1 /\ created.code = 200 /\ ~Absent(task_id))
            /\ (downloads >= 1 =>
                   /\ queries >= 1 /\ pollOutcome = "success"
                   /\ ~Absent(file_id) /\ fetched = file_id)
            /\ (pc = "exit" /\ createReq = 1 /\ Absent(task_id) =>
                   exitCode = 1 /\ queries = 0 /\ downloads = 0)
            /\ (pc = "exit" /\ createReq = 1 /\ pollOutcome # "success" =>
                   exitCode = 1 /\ downloads = 0)
            /\ (pc = "exit" /\ downloads = 1 /\ DownloadRaised =>
                   exitCode = 1 /\ saved = ""))
    /\ [][~(impl = "cli" /\ pc = "exit")]_vars

C28_Witness ==
    /\ impl = "cli" /\ pc = "exit" /\ exitCode = 1
    /\ chatReq = 1 /\ createReq = 1 /\ queries = 2
    /\ pollOutcome = "success" /\ file_id = PyStr(sF9)
    /\ downloads = 1 /\ dlResp.kind = "transport" /\ saved = ""

\* the chat request was refused or did not come through
ChatFailed == chatResp.kind = "transport" \/ chatResp.code >= 400

ErrorOpening ==
    <<"<","E","R","R","O","R"," ","q","u","e","r","y","i","n","g"," ",
      "A","I",":"," ">>

\* v is a string "<ERROR querying AI: ...>"
IsErrorString(v) ==
    /\ v.t = "str"
    /\ Len(v.s) > Len(ErrorOpening) + 1
    /\ SubSeq(v.s, 1, Len(ErrorOpening)) = ErrorOpening
    /\ v.s[Len(v.s)] = ">"

\* C29: the chat query never ends the run: after it the cli goes on to job
\* creation whatever the server did, and when the chat request failed the
\* reply is the error string "<ERROR querying AI: ...>" and that string is
\* the text of the TTS job, which then runs as for a normal reply.
C29_ChatFailureDoesNotStop ==
    (impl = "cli" /\ chatReq = 1) =>
        /\ (createReq = 0 => pc = "create" /\ err = NoErr /\ exitCode = -1)
        /\ (createReq = 1 => ttsText = reply)
        /\ (ChatFailed => IsErrorString(reply))

C29_Witness ==
    /\ impl = "cli" /\ pc = "exit" /\ exitCode = 0
    /\ chatResp.kind = "transport" /\ IsErrorString(reply)
    /\ createReq = 1 /\ ttsText = reply
    /\ pollOutcome = "success" /\ downloads = 1 /\ saved # ""

====
